---- MODULE Spec2Model ----
(***************************************************************************)
(* Chunked matrix-vector products against an implicit kernel matrix        *)
(* (examples/mvm.py).  Arrays are TLA+ sequences (1-based); the indices    *)
(* the code hands around (np.arange) are 0-based, so element i of an array *)
(* arr is arr[i + 1].  Arithmetic is exact integer arithmetic.             *)
(***************************************************************************)
EXTENDS Integers, Sequences, FiniteSets, TLC

\* ------------------------------------------------------------------ bounds
\* Longest index range of the chunking engine.
MaxL == 5

\* Values a per-index function of the chunking engine may return.
FunVals == {0, 1, 2}

\* Largest number of rows N and of columns P of the feature matrix, and its
\* largest number of entries N * P.
MaxDim == 5

MaxCells == 15

\* Largest dilation.
MaxDil == 3

\* The feature matrices and vectors are drawn from families indexed by
\* 0..MaxSeed.
MaxSeed == 2

\* Values of the hyperparameters and of their tangents.
Eta1Vals == {1, 3}

Eta2Vals == {1, 2}

CVals == {0, 2}

EtaDots == {<<2, -1>>, <<-1, 3>>}

\* The shapes (N, P) of the feature matrix.
Shapes ==
  {sh \in (1..MaxDim) \X (1..MaxDim) : sh[1] * sh[2] <= MaxCells}

\* Entry (i, j) of the family member seed: a whole number in -2..2.
Mix(seed, i, j) ==
  (((seed + 1) * (2 * i + 3 * j + 1) + i * j + i * i * (seed + 2)) % 5) - 2

GenMatrix(seed, n, p) == [i \in 1..n |-> [j \in 1..p |-> Mix(seed, i, j)]]

GenVector(seed, tag, n) == [i \in 1..n |-> Mix(seed + tag, i + tag, tag)]

\* ------------------------------------------------------- array runtime
\* np.arange(lo, hi)
arange(lo, hi) == [k \in 1..(IF hi > lo THEN hi - lo ELSE 0) |-> lo + k - 1]

\* vmap(fun)(array[chunk]): fun applied to each index of the batch, in order.
vmap(fun, idx) == [k \in 1..Len(idx) |-> fun[idx[k]]]

RECURSIVE concatenate_reversed(_)
\* np.concatenate with the arrays joined last to first.
concatenate_reversed(results) ==
  IF results = <<>> THEN <<>>
  ELSE concatenate_reversed(Tail(results)) \o Head(results)

RECURSIVE concatenate(_)
\* np.concatenate(results)
concatenate(results) ==
  IF results = <<>> THEN <<>>
  ELSE Head(results) \o concatenate(Tail(results))

\* ------------------------------------------------------------ _get_chunks
\* L // chunk_size and L % chunk_size raise ZeroDivisionError when the chunk
\* size is 0.
ZeroDivision(chunk_size) == chunk_size = 0

\* _get_chunks whose remainder block is taken one remainder too early: it
\* repeats the end of the last full block.
get_chunks_remainder_early(len, chunk_size) ==
  LET num_chunks == len \div chunk_size
      full == [i \in 1..num_chunks |->
                 arange((i - 1) * chunk_size, i * chunk_size)]
  IN  IF len % chunk_size # 0
      THEN Append(full, arange(len - 2 * (len % chunk_size),
                               len - (len % chunk_size)))
      ELSE full

\* _get_chunks with the remainder block appended unconditionally.
get_chunks_always_remainder(len, chunk_size) ==
  LET num_chunks == len \div chunk_size
      full == [i \in 1..num_chunks |->
                 arange((i - 1) * chunk_size, i * chunk_size)]
  IN  Append(full, arange(len - (len % chunk_size), len))

\* _get_chunks(L, chunk_size) for chunk_size >= 1.
_get_chunks(len, chunk_size) ==
  LET num_chunks == len \div chunk_size
      full == [i \in 1..num_chunks |->
                 arange((i - 1) * chunk_size, i * chunk_size)]
  IN  IF len % chunk_size # 0
      THEN Append(full, arange(len - (len % chunk_size), len))
      ELSE full

\* ------------------------------------------------------------ _chunk_vmap
\* What a call hands back: its value, or the exception that ended it.
Returned(v) == [raised |-> FALSE, nan |-> FALSE, val |-> v]

\* ZeroDivisionError: the call returns nothing.
Raised == [raised |-> TRUE, nan |-> FALSE, val |-> <<>>]

\* np.nan, a scalar that is no number.
NaN == [raised |-> FALSE, nan |-> TRUE, val |-> <<>>]

\* _chunk_vmap taking a chunk size of 0 as one batch over the whole range.
chunk_vmap_zero_as_single(f, len, chunk_size) ==
  IF chunk_size >= len \/ chunk_size = 0
  THEN Returned(vmap(f, arange(0, len)))
  ELSE LET chs == _get_chunks(len, chunk_size)
       IN  Returned(concatenate([c \in 1..Len(chs) |-> vmap(f, chs[c])]))

\* _chunk_vmap(fun, array, chunk_size) with array = np.arange(len): the whole
\* call, the batches taken in chunk order.
_chunk_vmap(f, len, chunk_size) ==
  IF chunk_size >= len THEN Returned(vmap(f, arange(0, len)))
  ELSE IF ZeroDivision(chunk_size) THEN Raised
  ELSE LET chs == _get_chunks(len, chunk_size)
       IN  Returned(concatenate([c \in 1..Len(chs) |-> vmap(f, chs[c])]))

\* --------------------------------------------------------- array algebra
RECURSIVE np_sum(_)
\* np.sum(v)
np_sum(v) == IF v = <<>> THEN 0 ELSE Head(v) + np_sum(Tail(v))

\* np.dot(u, v) of two vectors of one length
dot(u, v) == np_sum([k \in 1..Len(u) |-> u[k] * v[k]])

\* np.matmul(M, v): matrix times vector
matmul(M, v) == [n \in 1..Len(M) |-> dot(M[n], v)]

\* np.square(M), elementwise on a matrix
square(M) == [n \in 1..Len(M) |-> [p \in 1..Len(M[n]) |-> M[n][p] * M[n][p]]]

\* kappa * X: the vector broadcast along the rows of the matrix
scale_cols(kappa, X) ==
  [n \in 1..Len(X) |-> [p \in 1..Len(X[n]) |-> kappa[p] * X[n][p]]]

\* X[:, i]
column(X, i) == [n \in 1..Len(X) |-> X[n][i + 1]]

\* X.shape[-1]
ncols(X) == Len(X[1])

\* np.broadcast_to(x, (n,)), also numpy's implicit broadcast of a scalar
broadcast_to(x, n) == [k \in 1..n |-> x]

\* ------------------------------------------------ partitioned primitives
\* partitioned_mvm(row, dilation)(rhs); row is tabulated over the indices the
\* engine evaluates, np.arange(rhs.shape[-1]).
partitioned_mvm(row, dilation, rhs) ==
  LET compute_element == [i \in 0..(Len(rhs) - 1) |-> dot(rhs, row[i])]
  IN  _chunk_vmap(compute_element, Len(rhs), Len(rhs) \div dilation)

\* kXkXsq_row without the shift by 1.0.
kXkXsq_row_no_shift(i, kX) ==
  LET v == matmul(kX, kX[i + 1])
  IN  [j \in 1..Len(v) |-> v[j] * v[j]]

\* kXkXsq_row(i, kX)
kXkXsq_row(i, kX) ==
  LET v == matmul(kX, kX[i + 1])
  IN  [j \in 1..Len(v) |-> (1 + v[j]) * (1 + v[j])]

\* kXkXsq_mvm(b, kX, dilation)
kXkXsq_mvm(b, kX, dilation) ==
  partitioned_mvm([i \in 0..(Len(b) - 1) |-> kXkXsq_row(i, kX)], dilation, b)

\* kXdkXsq_row contracting kX with dkX[i] in both factors.
kXdkXsq_row_both_dkX(i, kX, dkX) ==
  LET u == matmul(kX, dkX[i + 1])
      w == matmul(kX, dkX[i + 1])
  IN  [j \in 1..Len(u) |-> u[j] * w[j]]

\* kXdkXsq_row(i, kX, dkX)
kXdkXsq_row(i, kX, dkX) ==
  LET u == matmul(kX, kX[i + 1])
      w == matmul(kX, dkX[i + 1])
  IN  [j \in 1..Len(u) |-> u[j] * w[j]]

\* kXdkXsq_mvm(b, kX, dkX, dilation)
kXdkXsq_mvm(b, kX, dkX, dilation) ==
  partitioned_mvm([i \in 0..(Len(b) - 1) |-> kXdkXsq_row(i, kX, dkX)],
                  dilation, b)

\* partitioned_mvm2(row, P, dilation)(rhs)
partitioned_mvm2(row, P_, dilation, rhs) ==
  LET compute_element == [i \in 0..(P_ - 1) |-> dot(rhs, row[i])]
  IN  _chunk_vmap(compute_element, P_, P_ \div dilation)

\* kX_mvm(b, kX, dilation); np.transpose of a vector is that vector
kX_mvm(b, kX, dilation) ==
  partitioned_mvm2([i \in 0..(ncols(kX) - 1) |-> column(kX, i)],
                   ncols(kX), dilation, b)

\* kX_mvm2(b, kX, dilation)
kX_mvm2(b, kX, dilation) ==
  LET compute_element == [i \in 0..(Len(kX) - 1) |-> dot(b, kX[i + 1])]
  IN  _chunk_vmap(compute_element, Len(kX), Len(kX) \div dilation)

\* quad_mvm(b, X): the two einsum contractions
quad_mvm(b, X) ==
  LET inner == [p \in 1..ncols(X) |-> np_sum([n \in 1..Len(X) |-> X[n][p] * b[n]])]
  IN  [n \in 1..Len(X) |-> np_sum([p \in 1..ncols(X) |-> X[n][p] * inner[p]])]

\* quad_mvm_dil whose first pass sums each column without weighting it by b.
quad_mvm_dil_unweighted(b, X, dilation) ==
  LET N_ == Len(X)
      P_ == ncols(X)
      compute_element1 == [i \in 0..(P_ - 1) |-> np_sum(column(X, i))]
      partial == _chunk_vmap(compute_element1, P_, P_ \div dilation)
  IN  IF partial.raised THEN Raised
      ELSE LET compute_element2 ==
                 [i \in 0..(N_ - 1) |-> dot(X[i + 1], partial.val)]
           IN  _chunk_vmap(compute_element2, N_, N_ \div dilation)

\* quad_mvm_dil(b, X, dilation)
quad_mvm_dil(b, X, dilation) ==
  LET N_ == Len(X)
      P_ == ncols(X)
      compute_element1 == [i \in 0..(P_ - 1) |-> dot(column(X, i), b)]
      partial == _chunk_vmap(compute_element1, P_, P_ \div dilation)
  IN  IF partial.raised THEN Raised
      ELSE LET compute_element2 ==
                 [i \in 0..(N_ - 1) |-> dot(X[i + 1], partial.val)]
           IN  _chunk_vmap(compute_element2, N_, N_ \div dilation)

\* M[i] on a JAX array: an index past the last row is clamped to it.
take_row(M, i) == M[(IF i < Len(M) THEN i ELSE Len(M) - 1) + 1]

\* vanilla_mvm(row)(rhs): the matrix materialized over np.arange(N), then
\* multiplied.
vanilla_mvm(row, N_, rhs) ==
  LET M == [n \in 1..N_ |-> row[n - 1]]
  IN  matmul(M, rhs)

\* ------------------------------------------------------ kernel MVM
\* The kernel values carry the factor 0.5; they are held in halves, so that
\* they stay whole numbers: 0.5 * x is x halves, and x itself is 2 * x halves.
HalfOf(x) == x

InHalves(x) == 2 * x

\* kernel_mvm_diag(b, kX, eta1, eta2, c, diag, dilation), in halves
kernel_mvm_diag(b, kX, eta1, eta2, c, diag, dilation) ==
  LET eta1sq == eta1 * eta1
      eta2sq == eta2 * eta2
      r1 == kXkXsq_mvm(b, kX, dilation)
      r2 == quad_mvm_dil(b, square(kX), dilation)
      r3 == quad_mvm_dil(b, kX, dilation)
  IN  IF r1.raised \/ r2.raised \/ r3.raised THEN Raised
      ELSE Returned([i \in 1..Len(b) |->
             HalfOf(eta2sq * r1.val[i])
             - HalfOf(eta2sq * r2.val[i])
             + InHalves((eta1sq - eta2sq) * r3.val[i])
             + (InHalves(c * c) - HalfOf(eta2sq)) * np_sum(b) * 1
             + InHalves(diag * b[i])])

\* kernel_mvm(b, kappa, X, eta1, eta2, c, dilation): the body of the
\* primitive, what a call outside a differentiation trace evaluates.
kernel_mvm(b, kappa, X, eta1, eta2, c, dilation) == NaN

\* kappa ** 2 in the place of kappa ** 3.
cube_as_square(kappa) == [p \in 1..Len(kappa) |-> kappa[p] * kappa[p]]

\* kappa ** 3
cube(kappa) == [p \in 1..Len(kappa) |-> kappa[p] * kappa[p] * kappa[p]]

\* kernel_mvm_jvp(b, X, c, dilation, primals, tangents), in halves; eta1 and
\* eta1_dot are arrays of b's length (a scalar is broadcast by numpy).
kernel_mvm_jvp(b, X, c, dilation, primals, tangents) ==
  LET kappa == primals[1]
      eta1 == primals[2]
      eta2 == primals[3]
      kappa_dot == tangents[1]
      eta1_dot == tangents[2]
      eta2_dot == tangents[3]
      eta1sq == [i \in 1..Len(eta1) |-> eta1[i] * eta1[i]]
      eta2sq == eta2 * eta2
      kX == scale_cols(kappa, X)
      Xsq == square(X)
      dkX == scale_cols(kappa_dot, X)
      dkXsq == scale_cols(kappa_dot, Xsq)
      k3Xsq == scale_cols(cube(kappa), Xsq)
      k1b == kXkXsq_mvm(b, kX, dilation)
      k2b == quad_mvm_dil(b, square(kX), dilation)
      k3b == quad_mvm_dil(b, kX, dilation)
      k4b == [i \in 1..Len(b) |-> np_sum(b) * 1]
      b_dkX == kX_mvm(b, dkX, dilation)
      b_dkXsq == kX_mvm(b, dkXsq, dilation)
      kXdkXsq_b == kXdkXsq_mvm(b, kX, dkX, dilation)
      kX_b_dkX == IF b_dkX.raised THEN Raised
                  ELSE kX_mvm2(b_dkX.val, kX, dilation)
      k3Xsq_b_dkXsq == IF b_dkXsq.raised THEN Raised
                       ELSE kX_mvm2(b_dkXsq.val, k3Xsq, dilation)
  IN  IF \/ k1b.raised \/ k2b.raised \/ k3b.raised
         \/ b_dkX.raised \/ b_dkXsq.raised \/ kXdkXsq_b.raised
         \/ kX_b_dkX.raised \/ k3Xsq_b_dkXsq.raised
      THEN Raised
      ELSE LET primal_out == [i \in 1..Len(b) |->
                 HalfOf(eta2sq * k1b.val[i])
                 - HalfOf(eta2sq * k2b.val[i])
                 + InHalves((eta1sq[i] - eta2sq) * k3b.val[i])
                 + (InHalves(c * c) - HalfOf(eta2sq)) * k4b[i]]
               tangent_out_dkappa == [i \in 1..Len(b) |->
                 InHalves(2 * eta1sq[i] * kX_b_dkX.val[i]
                          - 2 * eta2sq * (k3Xsq_b_dkXsq.val[i]
                                          - kXdkXsq_b.val[i]))]
               tangent_out_deta1 == [i \in 1..Len(b) |->
                 InHalves(2 * eta1[i] * eta1_dot[i] * k3b.val[i])]
               tangent_out_deta2 == [i \in 1..Len(b) |->
                 InHalves(eta2 * eta2_dot
                          * (k1b.val[i] - k2b.val[i]
                             - 2 * k3b.val[i] - k4b[i]))]
           IN  Returned([primal_out |-> primal_out,
                         tangent_out_dkappa |-> tangent_out_dkappa,
                         tangent_out_deta1 |-> tangent_out_deta1,
                         tangent_out_deta2 |-> tangent_out_deta2,
                         tangent_out |-> [i \in 1..Len(b) |->
                           tangent_out_dkappa[i] + tangent_out_deta1[i]
                           + tangent_out_deta2[i]]])

\* ------------------------------------------------------ differentiation
\* jvp(g, primals, tangents) for g = a . kernel_mvm(b, kappa, X,
\* broadcast_to(eta1, b.shape), eta2, c, dilation): the host system hands the
\* primals and tangents to the custom rule and pushes its outputs through
\* np.dot(a, .), which is linear.
g_jvp(a, b, X, c, dilation, primals, tangents) ==
  LET r == kernel_mvm_jvp(b, X, c, dilation,
             <<primals[1], broadcast_to(primals[2], Len(b)), primals[3]>>,
             <<tangents[1], broadcast_to(tangents[2], Len(b)), tangents[3]>>)
  IN  IF r.raised THEN Raised
      ELSE Returned([primal_out |-> dot(a, r.val.primal_out),
                     tangent_out |-> dot(a, r.val.tangent_out)])

\* The unit tangent of coordinate k of argument argnum, zero elsewhere.
unit_tangent(argnum, k, P_) ==
  << [p \in 1..P_ |-> IF argnum = 0 /\ p = k THEN 1 ELSE 0],
     IF argnum = 1 THEN 1 ELSE 0,
     IF argnum = 2 THEN 1 ELSE 0 >>

\* grad(g, argnum)(kappa, eta1, eta2): the forward rule transposed, one
\* coordinate of the argument at a time.
grad_g(argnum, a, b, X, c, dilation, primals) ==
  LET P_ == Len(primals[1])
      coords == IF argnum = 0 THEN P_ ELSE 1
      col == [k \in 1..coords |->
                g_jvp(a, b, X, c, dilation, primals,
                      unit_tangent(argnum, k, P_))]
  IN  IF \E k \in 1..coords : col[k].raised THEN Raised
      ELSE Returned([k \in 1..coords |-> col[k].val.tangent_out])

\* ------------------------------------------------ state of one engine call
VARIABLES
  L,          \* array.shape[0], the length of the index range
  chunk_size, \* the chunk size handed to the engine
  fun,        \* the per-index function, tabulated over 0..L-1
  pc,         \* "start", "chunked", "mapping", "returned", "raised"
  chunks,     \* the blocks _get_chunks returned
  results,    \* chunk number -> that chunk's batch, once evaluated
  first,      \* the chunk evaluated first (0: none yet)
  ret         \* the value returned

chunkVars == <<L, chunk_size, fun, pc, chunks, results, first, ret>>

\* ------------------------------------------- state of the primitives' calls
VARIABLES
  N, P,       \* X.shape
  X,          \* the feature matrix, N rows of P entries
  b,          \* right-hand side of length N
  rhs,        \* right-hand side of length P
  a,          \* probe vector of length N
  kappa,      \* scaling vector of length P
  eta1, eta2, c,
  tangents,   \* (kappa_dot, eta1_dot, eta2_dot) of the last jvp
  op,         \* the function called last ("none": nothing called yet)
  dilation,   \* its dilation
  argnum,     \* the argument a gradient was taken in
  out,        \* what the call handed back
  prev        \* the call before it: [op, dilation, out]

inputVars == <<N, P, X, b, rhs, a, kappa, eta1, eta2, c>>

callVars == <<tangents, op, dilation, argnum, out, prev>>

vars == <<chunkVars, inputVars, callVars>>

NoCall == [op |-> "none", dilation |-> 0, out |-> Raised]

\* No primitive is being called.
CallsIdle ==
  /\ N = 0 /\ P = 0 /\ X = <<>> /\ b = <<>> /\ rhs = <<>> /\ a = <<>>
  /\ kappa = <<>> /\ eta1 = 0 /\ eta2 = 0 /\ c = 0
  /\ tangents = <<>> /\ op = "none" /\ dilation = 0 /\ argnum = 0
  /\ out = Raised /\ prev = NoCall

\* The chunking engine is not being stepped.
ChunkIdle ==
  /\ L = 0 /\ chunk_size = 0 /\ fun = <<>> /\ pc = "idle"
  /\ chunks = <<>> /\ results = <<>> /\ first = 0 /\ ret = <<>>

InitChunk ==
  /\ L \in 0..MaxL
  /\ chunk_size \in 0..(MaxL + 1)
  /\ fun \in [0..(L - 1) -> FunVals]
  /\ pc = "start"
  /\ chunks = <<>>
  /\ results = <<>>
  /\ first = 0
  /\ ret = <<>>
  /\ CallsIdle

\* A direct call _get_chunks(L, chunk_size).
GetChunksCall ==
  /\ pc = "start"
  /\ ~ZeroDivision(chunk_size)
  /\ chunks' = _get_chunks(L, chunk_size)
  /\ pc' = "chunked"
  /\ UNCHANGED <<L, chunk_size, fun, results, first, ret, inputVars, callVars>>

\* _get_chunks(L, 0): line 12 divides by zero.
GetChunksRaise ==
  /\ pc = "start"
  /\ ZeroDivision(chunk_size)
  /\ pc' = "raised"
  /\ UNCHANGED <<L, chunk_size, fun, chunks, results, first, ret, inputVars, callVars>>

\* _chunk_vmap, chunk_size >= L: one batch over the whole range.
ChunkVmapSingle ==
  /\ pc = "start"
  /\ chunk_size >= L
  /\ ret' = vmap(fun, arange(0, L))
  /\ pc' = "returned"
  /\ UNCHANGED <<L, chunk_size, fun, chunks, results, first, inputVars, callVars>>

\* _chunk_vmap, chunk_size < L: the range is cut into chunks.
ChunkVmapSplit ==
  /\ pc = "start"
  /\ chunk_size < L
  /\ ~ZeroDivision(chunk_size)
  /\ chunks' = _get_chunks(L, chunk_size)
  /\ pc' = "mapping"
  /\ UNCHANGED <<L, chunk_size, fun, results, first, ret, inputVars, callVars>>

\* _chunk_vmap, 0 = chunk_size < L: _get_chunks raises, nothing is returned.
ChunkVmapRaise ==
  /\ pc = "start"
  /\ chunk_size < L
  /\ ZeroDivision(chunk_size)
  /\ pc' = "raised"
  /\ UNCHANGED <<L, chunk_size, fun, chunks, results, first, ret, inputVars, callVars>>

\* One chunk's batch vmap(fun)(array[chunk]); the chunks are independent and
\* may be evaluated in any order.
EvalChunk ==
  /\ pc = "mapping"
  /\ \E ch \in (1..Len(chunks)) \ DOMAIN results :
       /\ results' = [d \in (DOMAIN results) \cup {ch} |->
                        IF d = ch THEN vmap(fun, chunks[ch]) ELSE results[d]]
       /\ first' = IF first = 0 THEN ch ELSE first
  /\ UNCHANGED <<L, chunk_size, fun, pc, chunks, ret, inputVars, callVars>>

\* np.concatenate(results): the batches joined in chunk order.
Concatenate ==
  /\ pc = "mapping"
  /\ DOMAIN results = 1..Len(chunks)
  /\ ret' = concatenate([ch \in 1..Len(chunks) |-> results[ch]])
  /\ pc' = "returned"
  /\ UNCHANGED <<L, chunk_size, fun, chunks, results, first, inputVars, callVars>>

NextChunk ==
  \/ GetChunksCall
  \/ GetChunksRaise
  \/ ChunkVmapSingle
  \/ ChunkVmapSplit
  \/ ChunkVmapRaise
  \/ EvalChunk
  \/ Concatenate

SpecChunk == InitChunk /\ [][NextChunk]_vars

\* C7: for every L >= 0 and S >= 1, _get_chunks(L, S) returns floor(L/S)
\* blocks of exactly S contiguous indices, the first starting at 0, then one
\* block of the remaining L mod S indices only when L mod S # 0; no block is
\* empty, and the blocks in order list 0..L-1 exactly once, ascending.
C7_GetChunksPartition ==
  (pc = "chunked" /\ chunk_size >= 1) =>
    LET nfull == L \div chunk_size
        rem == L % chunk_size
    IN  /\ Len(chunks) = nfull + (IF rem # 0 THEN 1 ELSE 0)
        /\ \A i \in 1..nfull :
             /\ Len(chunks[i]) = chunk_size
             /\ \A k \in 1..chunk_size :
                  chunks[i][k] = (i - 1) * chunk_size + (k - 1)
        /\ rem # 0 =>
             /\ Len(chunks[nfull + 1]) = rem
             /\ \A k \in 1..rem :
                  chunks[nfull + 1][k] = nfull * chunk_size + (k - 1)
        /\ \A ch \in 1..Len(chunks) : Len(chunks[ch]) > 0
        /\ concatenate(chunks) = [k \in 1..L |-> k - 1]

\* _get_chunks has returned full blocks and a remainder block.
C7_Witness ==
  /\ pc = "chunked"
  /\ L \div chunk_size >= 2
  /\ L % chunk_size # 0

\* C6: for every L >= 0 and S >= 1, _chunk_vmap(f, [0..L-1], S) returns a
\* sequence of length L whose k-th element is f(k), whatever the order in
\* which the chunks were evaluated.
C6_ChunkVmapElementwise ==
  (pc = "returned" /\ chunk_size >= 1) =>
    /\ Len(ret) = L
    /\ \A k \in 0..(L - 1) : ret[k + 1] = fun[k]
    /\ _chunk_vmap(fun, L, chunk_size) = Returned(ret)

\* A chunked call with a remainder block has returned, its last chunk having
\* been evaluated first, on a function that is not constant.
C6_Witness ==
  /\ pc = "returned"
  /\ 1 <= chunk_size /\ chunk_size < L
  /\ L % chunk_size # 0
  /\ Len(chunks) >= 2
  /\ first = Len(chunks)
  /\ \E j, k \in 0..(L - 1) : fun[j] # fun[k]


\* ------------------------------------------------- calls of the primitives
InitMvm ==
  /\ ChunkIdle
  /\ \E sh \in Shapes : N = sh[1] /\ P = sh[2]
  /\ \E xs \in 0..MaxSeed, vs \in 0..MaxSeed :
       /\ X = GenMatrix(xs, N, P)
       /\ b = GenVector(vs, 1, N)
       /\ rhs = GenVector(vs, 2, P)
  /\ a = <<>> /\ kappa = <<>> /\ eta1 = 0 /\ eta2 = 0 /\ c = 0
  /\ tangents = <<>> /\ op = "none" /\ dilation = 0 /\ argnum = 0
  /\ out = Raised /\ prev = NoCall

\* The call `name` with dilation d hands back res.
Call(name, d, res) ==
  /\ op' = name
  /\ dilation' = d
  /\ out' = res
  /\ prev' = IF op = "none" THEN NoCall
             ELSE [op |-> op, dilation |-> dilation, out |-> out]
  /\ UNCHANGED <<chunkVars, inputVars>>

\* partitioned_mvm(lambda i: X[i], dilation)(rhs)
PartitionedMvmCall ==
  /\ op = "none"
  /\ \E d \in 1..MaxDil :
       /\ Call("partitioned_mvm", d,
               partitioned_mvm([i \in 0..(Len(rhs) - 1) |-> take_row(X, i)],
                               d, rhs))
       /\ UNCHANGED <<tangents, argnum>>

\* vanilla_mvm(lambda i: X[i])(rhs)
VanillaMvmCall ==
  /\ op = "none"
  /\ Call("vanilla_mvm", 0,
          Returned(vanilla_mvm([i \in 0..(N - 1) |-> take_row(X, i)], N, rhs)))
  /\ UNCHANGED <<tangents, argnum>>

\* quad_mvm_dil(b, X, dilation)
QuadMvmDilCall ==
  /\ op = "none"
  /\ \E d \in 1..MaxDil :
       /\ Call("quad_mvm_dil", d, quad_mvm_dil(b, X, d))
       /\ UNCHANGED <<tangents, argnum>>

\* quad_mvm(b, X)
QuadMvmCall ==
  /\ op = "none"
  /\ Call("quad_mvm", 0, Returned(quad_mvm(b, X)))
  /\ UNCHANGED <<tangents, argnum>>

\* kX_mvm(b, X, dilation)
KXMvmCall ==
  /\ op = "none"
  /\ \E d \in 1..MaxDil :
       /\ Call("kX_mvm", d, kX_mvm(b, X, d))
       /\ UNCHANGED <<tangents, argnum>>

\* kX_mvm2(rhs, X, dilation)
KXMvm2Call ==
  /\ op = "none"
  /\ \E d \in 1..MaxDil :
       /\ Call("kX_mvm2", d, kX_mvm2(rhs, X, d))
       /\ UNCHANGED <<tangents, argnum>>

NextMvm ==
  \/ PartitionedMvmCall
  \/ VanillaMvmCall
  \/ QuadMvmDilCall
  \/ QuadMvmCall
  \/ KXMvmCall
  \/ KXMvm2Call

SpecMvm == InitMvm /\ [][NextMvm]_vars

\* ------------------------------------------------ calls of the kernel MVM
InitKernel ==
  /\ ChunkIdle
  /\ \E sh \in Shapes : N = sh[1] /\ P = sh[2]
  /\ \E xs \in 0..MaxSeed :
       /\ X = GenMatrix(xs, N, P)
       /\ b = GenVector(xs, 1, N)
       /\ a = GenVector(xs, 4, N)
       /\ kappa = GenVector(xs, 3, P)
  /\ rhs = <<>>
  /\ eta1 \in Eta1Vals
  /\ eta2 \in Eta2Vals
  /\ c \in CVals
  /\ tangents = <<>> /\ op = "none" /\ dilation = 0 /\ argnum = 0
  /\ out = Raised /\ prev = NoCall

\* A function is called once, or twice in a row.
MayCall(name) == op = "none" \/ (op = name /\ prev.op = "none")

\* The tangent directions a jvp is asked for.
TangentSet ==
  {<<GenVector(ts, 5, P), e[1], e[2]>> : ts \in 0..MaxSeed, e \in EtaDots}

\* kernel_mvm_diag(b, kappa * X, eta1, eta2, c, 0, dilation)
KernelMvmDiagCall ==
  /\ MayCall("kernel_mvm_diag")
  /\ \E d \in 1..MaxDil :
       /\ Call("kernel_mvm_diag", d,
               kernel_mvm_diag(b, scale_cols(kappa, X), eta1, eta2, c, 0, d))
       /\ UNCHANGED <<tangents, argnum>>

\* The direction (1.4 * kappa, 0.1, .2) of the script, times ten.
ScriptTangent == <<[p \in 1..P |-> 14 * kappa[p]], 1, 2>>

\* v, _ = jvp(g, (kappa, eta1, eta2), tangents) with g = kernel_mvm(b, kappa,
\* X, eta1, eta2, c, dilation): the primal the custom rule computes.
KernelMvmTracedCall ==
  /\ MayCall("kernel_mvm_jvp")
  /\ \E d \in 1..MaxDil :
       LET t == ScriptTangent
           r == kernel_mvm_jvp(b, X, c, d,
                  <<kappa, broadcast_to(eta1, N), eta2>>,
                  <<t[1], broadcast_to(t[2], N), t[3]>>)
       IN  /\ Call("kernel_mvm_jvp", d,
                   IF r.raised THEN Raised ELSE Returned(r.val.primal_out))
           /\ UNCHANGED <<tangents, argnum>>

\* kernel_mvm(b, kappa, X, eta1, eta2, c, dilation) outside any trace
KernelMvmDirectCall ==
  /\ MayCall("kernel_mvm")
  /\ \E d \in 1..MaxDil :
       /\ Call("kernel_mvm", d, kernel_mvm(b, kappa, X, eta1, eta2, c, d))
       /\ UNCHANGED <<tangents, argnum>>

NextKernel ==
  \/ KernelMvmDiagCall
  \/ KernelMvmTracedCall
  \/ KernelMvmDirectCall

SpecKernel == InitKernel /\ [][NextKernel]_vars

\* --------------------------------------------- derivatives of the kernel MVM
\* jvp(g, (kappa, eta1, eta2), tangents), g = kernel_mvm(b, kappa, X, eta1,
\* eta2, c, dilation)
JvpCall ==
  /\ op = "none"
  /\ \E d \in 1..MaxDil, t \in TangentSet :
       /\ Call("jvp", d,
               kernel_mvm_jvp(b, X, c, d,
                  <<kappa, broadcast_to(eta1, N), eta2>>,
                  <<t[1], broadcast_to(t[2], N), t[3]>>))
       /\ tangents' = t
       /\ UNCHANGED argnum

\* grad(g, argnum)(kappa, eta1, eta2), g = a . kernel_mvm(b, kappa, X,
\* broadcast_to(eta1, b.shape), eta2, c, dilation)
GradCall ==
  /\ op = "none"
  /\ \E d \in 1..MaxDil, n \in 0..2 :
       /\ Call("grad", d, grad_g(n, a, b, X, c, d, <<kappa, eta1, eta2>>))
       /\ argnum' = n
       /\ UNCHANGED tangents

NextJvp ==
  \/ JvpCall
  \/ GradCall

SpecJvp == InitKernel /\ [][NextJvp]_vars

\* ------------------------------------------------------------ the claims
\* The index ranges a partitioned primitive cuts into chunks.
Ranges(name) ==
  CASE name = "partitioned_mvm" -> {Len(rhs)}
    [] name = "quad_mvm_dil" -> {P, N}
    [] name = "kX_mvm" -> {P}
    [] name = "kX_mvm2" -> {N}
    [] OTHER -> {}

Partitioned == {"partitioned_mvm", "quad_mvm_dil", "kX_mvm", "kX_mvm2"}

\* The dilations a call over ranges of lengths N and P returns for.
ValidDilation(d) == 1 <= d /\ d <= N /\ d <= P

\* C8: quad_mvm_dil(b, X, d) returns for every dilation up to min(N, P), and
\* whenever it returns, it returns what quad_mvm(b, X) computes, the vector
\* whose n-th entry is sum_p X[n,p] * (sum_m X[m,p] * b[m]), whatever the
\* dilation.
C8_QuadMvmDil ==
  (op = "quad_mvm_dil" /\ (ValidDilation(dilation) \/ ~out.raised)) =>
    /\ ~out.raised
    /\ out.val = quad_mvm(b, X)
    /\ Len(out.val) = N
    /\ \A n \in 1..N :
         out.val[n] =
           np_sum([p \in 1..P |->
                     X[n][p] * np_sum([m \in 1..N |-> X[m][p] * b[m]])])

\* quad_mvm_dil has returned a vector without zeros for a 5 x 3 matrix under
\* dilation 2, which divides neither 5 nor 3: the five rows are cut into the
\* chunks [0, 1], [2, 3] and [4].
C8_Witness ==
  /\ op = "quad_mvm_dil"
  /\ ~out.raised
  /\ N = 5 /\ P = 3 /\ dilation = 2
  /\ \A n \in 1..N : out.val[n] # 0

\* C9, as stated: a call of a partitioned primitive whose dilation does not
\* divide the length of its index range ends in a failure.
C9_NonDivisibleRaises ==
  (op \in Partitioned /\ \E len \in Ranges(op) : len % dilation # 0) =>
    out.raised

\* C9, amended: a call of a partitioned primitive fails exactly when its
\* dilation is larger than the length of an index range it cuts (the chunk
\* size L // dilation is then 0); with a dilation that does not divide L but
\* is at most L it returns.
C9_TooLargeDilationRaises ==
  op \in Partitioned =>
    (out.raised <=> \E len \in Ranges(op) : dilation > len)

\* A partitioned primitive failed, and its range is not empty.
C9_Witness ==
  /\ op = "kX_mvm2"
  /\ out.raised
  /\ N >= 2
  /\ dilation > N

\* C10: partitioned_mvm(row, dilation)(rhs) over an implicit matrix of N rows
\* of length P returns the N entries sum_p row(i)[p] * rhs[p], also when
\* N # P.
C10_PartitionedMvmRows ==
  (op = "partitioned_mvm" /\ ~out.raised) =>
    /\ Len(out.val) = N
    /\ \A i \in 1..N : out.val[i] = np_sum([p \in 1..P |-> X[i][p] * rhs[p]])

\* The scaled features kX = kappa * X, and the entries s_ij and q_ij of the
\* brute-force kernel.
RefKX == [n \in 1..N |-> [p \in 1..P |-> kappa[p] * X[n][p]]]

RefS(i, j) == np_sum([p \in 1..P |-> RefKX[i][p] * RefKX[j][p]])

RefQ(i, j) ==
  np_sum([p \in 1..P |->
            RefKX[i][p] * RefKX[i][p] * RefKX[j][p] * RefKX[j][p]])

\* Twice the kernel entry K[i,j] = 0.5 eta2^2 (1 + s)^2 - 0.5 eta2^2 q
\* + (eta1^2 - eta2^2) s + (c^2 - 0.5 eta2^2).
RefK(i, j) ==
  eta2 * eta2 * (1 + RefS(i, j)) * (1 + RefS(i, j))
  - eta2 * eta2 * RefQ(i, j)
  + 2 * (eta1 * eta1 - eta2 * eta2) * RefS(i, j)
  + (2 * c * c - eta2 * eta2)

\* C1: the kernel MVM (the primal of kernel_mvm_jvp, and kernel_mvm_diag with
\* diag = 0) returns for every dilation up to min(N, P), and whenever it
\* returns, entry i is sum_j K[i,j] * b[j].
C1_PrimalIsBruteForce ==
  (/\ op \in {"kernel_mvm_diag", "kernel_mvm_jvp"}
   /\ (ValidDilation(dilation) \/ ~out.raised)) =>
    /\ ~out.raised
    /\ Len(out.val) = N
    /\ \A i \in 1..N :
         out.val[i] = np_sum([j \in 1..N |-> RefK(i, j) * b[j]])

\* The rule has returned a primal without zeros for a 5 x 3 feature matrix
\* cut with dilation 2, which divides neither dimension.
C1_Witness ==
  /\ op = "kernel_mvm_jvp"
  /\ ~out.raised
  /\ N = 5 /\ P = 3 /\ dilation = 2
  /\ \A i \in 1..N : out.val[i] # 0

\* C4, as stated: two kernel MVMs that differ only in the dilation, any two
\* positive integers, both return, and return the same vector.
C4_DilationInvariance ==
  (op \in {"kernel_mvm_diag", "kernel_mvm_jvp"} /\ prev.op = op) =>
    /\ ~out.raised
    /\ ~prev.out.raised
    /\ out.val = prev.out.val

\* C4, amended: two kernel MVMs that differ only in the dilation, both at
\* most min(N, P), both return, and return the same vector, also when a
\* dilation divides neither N nor P.
C4_ValidDilationInvariance ==
  (/\ op \in {"kernel_mvm_diag", "kernel_mvm_jvp"}
   /\ prev.op = op
   /\ ValidDilation(dilation)
   /\ ValidDilation(prev.dilation)) =>
    /\ ~out.raised
    /\ ~prev.out.raised
    /\ out.val = prev.out.val

\* The kernel MVM of a 5 x 3 feature matrix has returned the same vector
\* without zeros with dilation 3 and then with dilation 2, which divides
\* neither dimension.
C4_Witness ==
  /\ op = "kernel_mvm_diag"
  /\ prev.op = op
  /\ N = 5 /\ P = 3
  /\ prev.dilation = 3 /\ dilation = 2
  /\ ~out.raised /\ ~prev.out.raised
  /\ out.val = prev.out.val
  /\ \A i \in 1..N : out.val[i] # 0

\* C5: a direct call of kernel_mvm returns the primal_out the rule computes
\* for the same inputs.
C5_DirectCallIsPrimal ==
  op = "kernel_mvm" =>
    LET r == kernel_mvm_jvp(b, X, c, dilation,
               <<kappa, broadcast_to(eta1, N), eta2>>,
               <<[p \in 1..P |-> 0], broadcast_to(0, N), 0>>)
    IN  ~r.raised => out = Returned(r.val.primal_out)

\* The derivative dkX of kX along kappa_dot, and of s_ij and q_ij by the
\* product rule.
RefDKX == [n \in 1..N |-> [p \in 1..P |-> tangents[1][p] * X[n][p]]]

RefDS(i, j) ==
  np_sum([p \in 1..P |->
            RefDKX[i][p] * RefKX[j][p] + RefKX[i][p] * RefDKX[j][p]])

RefDQ(i, j) ==
  np_sum([p \in 1..P |->
            2 * RefKX[i][p] * RefDKX[i][p] * RefKX[j][p] * RefKX[j][p]
            + RefKX[i][p] * RefKX[i][p] * 2 * RefKX[j][p] * RefDKX[j][p]])

\* Twice the derivative of K[i,j] along kappa_dot alone.
RefDKkappa(i, j) ==
  eta2 * eta2 * 2 * (1 + RefS(i, j)) * RefDS(i, j)
  - eta2 * eta2 * RefDQ(i, j)
  + 2 * (eta1 * eta1 - eta2 * eta2) * RefDS(i, j)

\* Twice the derivative of K[i,j] along eta1_dot alone.
RefDKeta1(i, j) == 2 * (2 * eta1 * tangents[2]) * RefS(i, j)

\* Twice the derivative of K[i,j] along eta2_dot alone.
RefDKeta2(i, j) ==
  LET deta2sq == 2 * eta2 * tangents[3]
  IN  deta2sq * (1 + RefS(i, j)) * (1 + RefS(i, j))
      - deta2sq * RefQ(i, j)
      - 2 * deta2sq * RefS(i, j)
      - deta2sq

\* C2: kernel_mvm_jvp returns for every dilation up to min(N, P), and
\* whenever it returns, its tangent_out is the directional derivative
\* sum_j dK[i,j] * b[j] of the brute-force product, for the kappa, eta1 and
\* eta2 contributions each and for their sum; and its primal_out is the
\* brute-force product.
C2_TangentIsDerivative ==
  (op = "jvp" /\ (ValidDilation(dilation) \/ ~out.raised)) =>
    /\ ~out.raised
    /\ \A i \in 1..N :
         /\ out.val.tangent_out_dkappa[i] =
              np_sum([j \in 1..N |-> RefDKkappa(i, j) * b[j]])
         /\ out.val.tangent_out_deta1[i] =
              np_sum([j \in 1..N |-> RefDKeta1(i, j) * b[j]])
         /\ out.val.tangent_out_deta2[i] =
              np_sum([j \in 1..N |-> RefDKeta2(i, j) * b[j]])
         /\ out.val.tangent_out[i] =
              np_sum([j \in 1..N |->
                        (RefDKkappa(i, j) + RefDKeta1(i, j) + RefDKeta2(i, j))
                        * b[j]])
         /\ out.val.primal_out[i] = np_sum([j \in 1..N |-> RefK(i, j) * b[j]])

\* The rule has returned, for a 5 x 3 feature matrix and dilation 2, a
\* tangent whose three contributions are all non-zero.
C2_Witness ==
  /\ op = "jvp"
  /\ ~out.raised
  /\ N = 5 /\ P = 3 /\ dilation = 2
  /\ \E i \in 1..N : out.val.tangent_out_dkappa[i] # 0
  /\ \E i \in 1..N : out.val.tangent_out_deta1[i] # 0
  /\ \E i \in 1..N : out.val.tangent_out_deta2[i] # 0

\* Twice the partial derivative of K[i,j] in kappa[k], in eta1 and in eta2.
RefGradK(n, k, i, j) ==
  CASE n = 0 ->
         LET ds == 2 * kappa[k] * X[i][k] * X[j][k]
             dq == 4 * kappa[k] * kappa[k] * kappa[k]
                   * X[i][k] * X[i][k] * X[j][k] * X[j][k]
         IN  eta2 * eta2 * 2 * (1 + RefS(i, j)) * ds
             - eta2 * eta2 * dq
             + 2 * (eta1 * eta1 - eta2 * eta2) * ds
    [] n = 1 -> 4 * eta1 * RefS(i, j)
    [] OTHER ->
         2 * eta2 * (1 + RefS(i, j)) * (1 + RefS(i, j))
         - 2 * eta2 * RefQ(i, j)
         - 4 * eta2 * RefS(i, j)
         - 2 * eta2

\* C3: grad(g, argnum), for g = a . kernel_mvm(...), returns for every
\* dilation up to min(N, P), and whenever it returns, its component k is the
\* partial derivative of the brute-force scalar
\* sum_i a[i] * sum_j K[i,j] * b[j] in coordinate k of that argument.
C3_GradIsBruteForceGrad ==
  (op = "grad" /\ (ValidDilation(dilation) \/ ~out.raised)) =>
    /\ ~out.raised
    /\ Len(out.val) = IF argnum = 0 THEN P ELSE 1
    /\ \A k \in 1..Len(out.val) :
         out.val[k] =
           np_sum([i \in 1..N |->
                     a[i] * np_sum([j \in 1..N |->
                                      RefGradK(argnum, k, i, j) * b[j]])])

\* A gradient in kappa with no zero component has been returned for a 5 x 3
\* feature matrix, under dilation 2, which divides neither dimension.
C3_Witness ==
  /\ op = "grad"
  /\ ~out.raised
  /\ argnum = 0
  /\ N = 5 /\ P = 3 /\ dilation = 2
  /\ \A k \in 1..P : out.val[k] # 0

====
